---- MODULE Spec2Model ----
(***************************************************************************)
(* Clip export orchestrator of CliperAi (src/src/video_exporter.py):       *)
(* VideoExporter.export_clips and VideoExporter._export_single_clip, with  *)
(* the files they create, rename and unlink, the ffmpeg command lines they *)
(* build and the outcomes of the subprocesses and of the reframer call.    *)
(*                                                                         *)
(* One export of one clip is a sequence of steps (pc): subtitle            *)
(* generation, optional face tracking, Step 1 transcode, optional Step 2   *)
(* transcode, the finally block.  The outcomes of the external programs    *)
(* (ffmpeg exit status, whether a failing ffmpeg left a file behind, an    *)
(* OSError on launch or on rename, the reframer raising) are chosen        *)
(* nondeterministically.                                                   *)
(*                                                                         *)
(* The face reframer (src/src/reframer.py) is modelled next to it:         *)
(* FFmpegVideoWriter (the encoder subprocess behind isOpened, write and    *)
(* release) under WriterSpec, and FaceReframer.reframe_video (geometry,    *)
(* codec selection, the frame loop with detection, fallback and the two    *)
(* crop strategies, the final cleanup) under ReframeSpec, where the        *)
(* encoder may fail in every way on short clips, and under CropSpec, where *)
(* every face position is explored on full-length clips.                   *)
(* ReuseSpec makes a second reframe_video call on the same FaceReframer,   *)
(* and PipeSpec runs the call against the encoder as a second process      *)
(* joined to it by the stdin and stderr pipes, under weak fairness.        *)
(***************************************************************************)
EXTENDS Integers, Sequences, FiniteSets, TLC

\* ---------------------------------------------------------------- bounds
NumClips == 2       \* clip ids 1..NumClips; the clips argument is a list of distinct ids

ClipIds == 1..NumClips

\* aspect_ratio values; "None" is Python's None (keep the original ratio)
AspectRatios == {"None", "9:16", "1:1", "16:9"}

\* The files of one clip in the output directory.  Every path _export_single_clip
\* touches is derived from clip_id (<id>.mp4, <id>.srt, <id>_step1_temp.mp4,
\* <id>_reframed_temp.mp4), so the export of a clip reads and writes the files
\* of that clip only; the model keeps the files of the clip being exported.
\* The output directory outlives the program: <id>.mp4 and <id>.srt of an earlier
\* export of the same video are never deleted (ffmpeg is run with -y to
\* overwrite them), so they may exist when the export of the clip starts.
\* Contents of a file:
\*   "none"     the file does not exist
\*   "stale"    left by an earlier export of the same clip id
\*   "partial"  left behind by a transcode that exited non-zero
\*   "single"   complete output of a single-pass transcode
\*   "pass1"    complete output of Step 1 of a two-step export (logo, no subtitles)
\*   "pass2"    complete output of Step 2
\*   "reframed" silent intermediate written by FaceReframer.reframe_video
\*   "fresh"    subtitle file written by this call of export_clips
NoFiles == [out |-> "none", srt |-> "none", step1 |-> "none", reframed |-> "none"]

VARIABLES
    pc,               \* position: "idle", "loop", "face_tracking", "reframing", "step1", "step2", "finally", "after_clip", "returned", "raised"
    cfg,              \* arguments of the running export_clips call
    clips,            \* its clips argument (list of clip ids)
    idx,              \* position of the for loop in clips (1-based)
    exported_clips,   \* the list export_clips accumulates and returns
    files,            \* output directory: the four files of the clip being exported
    subtitle_file,    \* local of _export_single_clip: TRUE when set to a path, FALSE when None
    video_to_process, \* local: "source" (video_path) or "reframed" (temp_reframed_path)
    aspect_ratio,     \* local: the parameter, reset to "None" after a reframe that returned
    reframe_result,   \* "not_run", "returned" or "raised"
    needs_two_steps,  \* local
    cmds,             \* transcode invocations of the current clip export, in order
    ret,              \* "pending", "None", "path" or "exception": how the try block was left
    log,              \* clip exports that returned in the running call: clip id and transcode exit statuses
    \* --- FFmpegVideoWriter (one object) and its encoder subprocess
    writer,           \* the object: [opened (self._opened), process (self.process: "None" or "proc")]
    proc,             \* the subprocess: [state, stdin, code, frames]
    calls,            \* number of calls made on the object so far
    last,             \* the last call: what it returned, touched and logged
    \* --- FaceReframer.reframe_video (one call on a fresh FaceReframer)
    rpc,              \* position: "idle", "codecs", "loop", "writing" (inside out.write,
                      \* PipeSpec only), "returned", "raised"
    job,              \* arguments and the values derived from them before the codec loop
    cap,              \* the cv2.VideoCapture: "none", "open", "released"
    tried,            \* the codecs tried so far: [codec, started, released]; the FFmpegVideoWriter
                      \* of the last one (test_writer) and its subprocess are writer and proc
    out,              \* local out: 0 for None, else the index in tried of the codec whose writer is kept
    frame_number,     \* local
    last_face,        \* local: NoFace for None, else [src |-> "detection" | "fallback", center_x]
    frames_without_face, \* local
    last_crop_x,      \* self.last_crop_x: None or Some(x)
    frame,            \* the frame just handled: the face used, crop_x, the sliced size, the write result
    write_failures,   \* frames of this call whose out.write returned False
    \* --- the pipes between reframe_video and the encoder subprocess
    pipes             \* [stdin: frames written and not yet read by the encoder,
                      \*  stderr: output the encoder wrote and nobody read,
                      \*  blocked: the encoder is blocked writing to stderr]

exporter_vars == <<pc, cfg, clips, idx, exported_clips, files, subtitle_file,
                   video_to_process, aspect_ratio, reframe_result, needs_two_steps,
                   cmds, ret, log>>

writer_vars == <<writer, proc, calls, last>>

reframer_vars == <<rpc, job, cap, tried, out, frame_number, last_face,
                   frames_without_face, last_crop_x, frame, write_failures>>

vars == <<exporter_vars, writer_vars, reframer_vars, pipes>>

locals == <<subtitle_file, video_to_process, aspect_ratio, reframe_result,
            needs_two_steps, cmds, ret>>

\* ------------------------------------------------------------ inputs
\* logo_position arguments: two of the four corner names and a name that is
\* not in the positions dict
LogoPositions == { "top-right", "bottom-left", "center" }

\* logo_scale: float = 0.1, in percent
DefaultLogoScale == 10

\* logo_scale arguments, in percent
LogoScales == { DefaultLogoScale, 25 }

Configs ==
    { c \in [aspect_ratio : AspectRatios,
             enable_face_tracking : BOOLEAN,
             add_logo : BOOLEAN,
             logo_exists : BOOLEAN,       \* logo_path names an existing file
             logo_position : LogoPositions,
             logo_scale : LogoScales,
             add_subtitles : BOOLEAN,
             transcript_path : BOOLEAN]   \* transcript_path is not None
      : /\ (~c.add_logo => ~c.logo_exists)          \* irrelevant otherwise
        /\ (~c.logo_exists => c.logo_position = "top-right" /\ c.logo_scale = DefaultLogoScale)
        /\ (~c.add_subtitles => ~c.transcript_path) }

DefaultCfg == [aspect_ratio |-> "None", enable_face_tracking |-> FALSE,
               add_logo |-> FALSE, logo_exists |-> FALSE,
               logo_position |-> "top-right", logo_scale |-> DefaultLogoScale,
               add_subtitles |-> FALSE, transcript_path |-> FALSE]

\* non-empty lists of distinct clip ids
RECURSIVE SeqsUpTo(_)
SeqsUpTo(n) ==
    IF n = 0 THEN { <<>> }
    ELSE LET shorter == SeqsUpTo(n - 1)
         IN shorter \cup { Append(s, c) : s \in { t \in shorter : Len(t) = n - 1 }, c \in ClipIds }

IsInjective(s) == \A i, j \in 1..Len(s) : i # j => s[i] # s[j]

ClipLists == { s \in SeqsUpTo(NumClips) : Len(s) > 0 /\ IsInjective(s) }

\* ------------------------------------------------- pure helpers of the code
get_aspect_ratio_filter(a) ==
    CASE a = "9:16" -> "crop=ih*9/16:ih,scale=1080:1920"
      [] a = "1:1"  -> "crop=ih:ih,scale=1080:1080"
      [] a = "16:9" -> "scale=1920:1080"
      [] OTHER      -> "None"

\* positions = {"top-right": "W-w-20:20", ...}; "None" for a missing key
positions(name) ==
    CASE name = "top-right"    -> "W-w-20:20"
      [] name = "top-left"     -> "20:20"
      [] name = "bottom-right" -> "W-w-20:H-h-20"
      [] name = "bottom-left"  -> "20:H-h-20"
      [] OTHER                 -> "None"

\* pos_str = positions.get(logo_position, positions["top-right"])
pos_str(logo_position) ==
    IF positions(logo_position) # "None" THEN positions(logo_position)
                                        ELSE positions("top-right")

\* add_logo and logo_path and Path(logo_path).exists()
LogoApplies(c) == c.add_logo /\ c.logo_exists

\* add_subtitles and subtitle_file and subtitle_file.exists()
SubtitlesApply(c, sub_file, srt) == c.add_subtitles /\ sub_file /\ srt # "none"

NeedsTwoSteps(c, sub_file, srt) == LogoApplies(c) /\ SubtitlesApply(c, sub_file, srt)

\* variant of FirstStepOutput: every first transcode writes to temp_path_step1
M_FirstStepOutputAlwaysTemp(two) == "step1"

\* first_step_output = temp_path_step1 if needs_two_steps else output_path
FirstStepOutput(two) == IF two THEN "step1" ELSE "out"

\* ------------------------------------------------------- ffmpeg command lines
\* A command line is kept as the fields the code puts into it:
\*   inputs            the -i arguments in order (input k of ffmpeg is inputs[k+1]);
\*                     trim is TRUE when the input carries -ss start_time -t duration
\*   simple_filters    the filters joined with "," (in -vf, or as the first chain of
\*                     -filter_complex); "subtitles" is the subtitle-burn filter
\*   logo_input_idx    input index of the overlay layer, -1 when there is no overlay
\*   overlay_base      the stream the logo is overlaid on, "None" without overlay
\*   overlay_pos       the x:y argument of the overlay filter, "None" without overlay
\*   logo_filters      the filters the logo stream passes before the overlay
\*   map_video         the argument of the video -map
\*   sn                the -sn flag (discard subtitle streams)
\*   audio_input_idx   k of "-map k:a?", -1 when the command has no audio -map
\*   c_a               the audio codec: "aac" encodes, "copy" copies the stream
\*   output            "step1" (temp_path_step1) or "out" (output_path)
Input(file, trim) == [file |-> file, trim |-> trim]

\* using_face_tracking = (video_to_process == temp_reframed_path and temp_reframed_path.exists())
UsingFaceTracking(vtp, reframed) == vtp = "reframed" /\ reframed # "none"

\* variant of AudioInputIdx: audio always mapped from input 0
M_AudioInputIdxAlwaysZero(using_face_tracking) == 0

\* video_input_idx, audio_input_idx = (0, 1) if using_face_tracking else (0, 0)
AudioInputIdx(using_face_tracking) == IF using_face_tracking THEN 1 ELSE 0

VideoInputs(using_face_tracking) ==
    IF using_face_tracking
    THEN << Input("reframed", FALSE), Input("source", TRUE) >>
    ELSE << Input("source", TRUE) >>

\* variant of SimpleFilters: the subtitle burn is added in Step 1 of a two-step export too
M_SimpleFiltersSubtitlesInStep1(ar, using_face_tracking, two, subs) ==
    LET aspect_filter ==
            IF ar # "None" /\ ~using_face_tracking THEN get_aspect_ratio_filter(ar) ELSE "None"
        with_aspect == IF aspect_filter # "None" THEN << aspect_filter >> ELSE << >>
    IN  IF subs THEN Append(with_aspect, "subtitles") ELSE with_aspect

\* simple_filters: the static aspect-ratio filter, then the subtitle burn when it
\* is not left to Step 2
SimpleFilters(ar, using_face_tracking, two, subs) ==
    LET aspect_filter ==
            IF ar # "None" /\ ~using_face_tracking THEN get_aspect_ratio_filter(ar) ELSE "None"
        with_aspect == IF aspect_filter # "None" THEN << aspect_filter >> ELSE << >>
    IN  IF ~two /\ subs THEN Append(with_aspect, "subtitles") ELSE with_aspect

Step1Cmd(c, vtp, reframed, ar, sub_file, srt, two) ==
    LET using_face_tracking == UsingFaceTracking(vtp, reframed)
        video_input_idx == 0
        audio_input_idx == AudioInputIdx(using_face_tracking)
        logo == LogoApplies(c)
        logo_input_idx == IF logo THEN audio_input_idx + 1 ELSE -1
        inputs == IF logo THEN Append(VideoInputs(using_face_tracking), Input("logo", FALSE))
                          ELSE VideoInputs(using_face_tracking)
        simple_filters ==
            SimpleFilters(ar, using_face_tracking, two, SubtitlesApply(c, sub_file, srt))
    IN  [ step            |-> 1,
          inputs          |-> inputs,
          simple_filters  |-> simple_filters,
          logo_input_idx  |-> logo_input_idx,
          overlay_base    |-> IF ~logo THEN "None"
                              ELSE IF simple_filters # << >> THEN "[v_filtered]" ELSE "[0:v]",
          overlay_pos     |-> IF logo THEN pos_str(c.logo_position) ELSE "None",
          logo_filters    |-> << >>,
          map_video       |-> IF logo THEN "[v_out]" ELSE "0:v",
          sn              |-> two,
          audio_input_idx |-> audio_input_idx,
          c_a             |-> "aac",
          output          |-> FirstStepOutput(two) ]

\* variant of Step2Cmd: Step 2 reads the original source again
M_Step2CmdFromSource(first_step_output) ==
    [ step            |-> 2,
      inputs          |-> << Input("source", TRUE) >>,
      simple_filters  |-> << "subtitles" >>,
      logo_input_idx  |-> -1,
      overlay_base    |-> "None",
      overlay_pos     |-> "None",
      logo_filters    |-> << >>,
      map_video       |-> "default",
      sn              |-> FALSE,
      audio_input_idx |-> -1,
      c_a             |-> "copy",
      output          |-> "out" ]

\* cmd2 = ["ffmpeg", "-i", first_step_output, "-vf", subtitle_filter, "-c:a", "copy", "-y", output_path]
Step2Cmd(first_step_output) ==
    [ step            |-> 2,
      inputs          |-> << Input(first_step_output, FALSE) >>,
      simple_filters  |-> << "subtitles" >>,
      logo_input_idx  |-> -1,
      overlay_base    |-> "None",
      overlay_pos     |-> "None",
      logo_filters    |-> << >>,
      map_video       |-> "default",
      sn              |-> FALSE,
      audio_input_idx |-> -1,
      c_a             |-> "copy",
      output          |-> "out" ]

Run(cmd, status) == [cmd |-> cmd, status |-> status]

\* ------------------------------------------------------------ file system
WriteFile(f, name, content) == [f EXCEPT ![name] = content]

\* what a transcode that exits non-zero can leave at its output path:
\* the path untouched, or a truncated file (ffmpeg -y opens the output early)
AfterFailedRun(old) == { old, "partial" }

\* variant of Rename: the Step 1 file is left where it is
M_RenameSkipped(f) == f

\* first_step_output.rename(output_path); replaces an existing output_path
Rename(f) == [f EXCEPT !.out = f.step1, !.step1 = "none"]

\* variant of Cleanup: only temp_path_step1 is unlinked
M_CleanupKeepsReframed(f) == [f EXCEPT !.step1 = "none"]

\* the finally block
Cleanup(f) == [f EXCEPT !.step1 = "none", !.reframed = "none"]

\* what the output directory can hold for a clip when its export starts
Preexisting ==
    { [out |-> o, srt |-> t, step1 |-> "none", reframed |-> "none"] :
        o \in {"none", "stale"}, t \in {"none", "stale"} }

\* ------------------------------------------------- FFmpegVideoWriter
\* self.process.wait(timeout=30)
ReleaseTimeout == 30

MaxCalls == 4       \* calls made on one writer object

\* the subprocess behind a writer:
\*   state  "none" (never started), "running", "exited" (not yet waited for),
\*          "reaped" (waited for)
\*   stdin  "none", "open", "closed"
\*   code   exit code: "none" while running, "zero" or "nonzero"
\*   frames frames the encoder accepted on its stdin
NoProc == [state |-> "none", stdin |-> "none", code |-> "none", frames |-> 0]

\* no writer object constructed yet
NoWriter == [opened |-> FALSE, process |-> "None"]

\* what a call reports: return value ("None" for a call that returns nothing),
\* whether it raised, the subprocess operations it performed, the time spent in
\* wait(timeout=30), the log levels it emitted, the environment it met
NoCallYet == [op |-> "none", ret |-> "None", raised |-> FALSE, touched |-> {},
              waited |-> 0, log |-> {}, env |-> "none"]

\* __init__: subprocess.Popen inside try/except Exception
FFmpegVideoWriter(popen_ok) ==
    IF popen_ok
    THEN [writer |-> [opened |-> TRUE, process |-> "proc"],
          proc   |-> [state |-> "running", stdin |-> "open", code |-> "none", frames |-> 0],
          log    |-> {}]
    ELSE [writer |-> [opened |-> FALSE, process |-> "None"],
          proc   |-> NoProc,
          log    |-> {"error"}]

\* return self._opened and self.process is not None and self.process.poll() is None
isOpened(w, p) == w.opened /\ w.process # "None" /\ p.state = "running"

\* poll() is evaluated only when the first two conjuncts hold
isOpenedTouches(w) == IF w.opened /\ w.process # "None" THEN {"poll"} ELSE {}

\* outcomes of self.process.stdin.write for a writer that isOpened
WriteOutcomes == {"ok", "broken_pipe", "error"}

\* variant of write: a broken pipe leaves _opened set
M_writeKeepsOpened(w, p, outcome) ==
    IF ~isOpened(w, p)
    THEN [writer |-> w, proc |-> p, ret |-> FALSE, raised |-> FALSE,
          touched |-> isOpenedTouches(w), log |-> {}]
    ELSE CASE outcome = "ok" ->
               [writer |-> w, proc |-> [p EXCEPT !.frames = @ + 1], ret |-> TRUE,
                raised |-> FALSE, touched |-> {"poll", "stdin.write"}, log |-> {}]
           [] outcome = "broken_pipe" ->
               [writer |-> w,
                proc |-> [p EXCEPT !.state = "exited", !.code = "nonzero"],
                ret |-> FALSE, raised |-> FALSE,
                touched |-> {"poll", "stdin.write"}, log |-> {"error"}]
           [] outcome = "error" ->
               [writer |-> w, proc |-> p, ret |-> FALSE, raised |-> FALSE,
                touched |-> {"poll", "stdin.write"}, log |-> {"error"}]

\* write(frame): False when not isOpened; otherwise stdin.write, with
\* BrokenPipeError (the encoder is gone: _opened = False) and any other
\* Exception caught and turned into False
write(w, p, outcome) ==
    IF ~isOpened(w, p)
    THEN [writer |-> w, proc |-> p, ret |-> FALSE, raised |-> FALSE,
          touched |-> isOpenedTouches(w), log |-> {}]
    ELSE CASE outcome = "ok" ->
               [writer |-> w, proc |-> [p EXCEPT !.frames = @ + 1], ret |-> TRUE,
                raised |-> FALSE, touched |-> {"poll", "stdin.write"}, log |-> {}]
           [] outcome = "broken_pipe" ->
               [writer |-> [w EXCEPT !.opened = FALSE],
                proc |-> [p EXCEPT !.state = "exited", !.code = "nonzero"],
                ret |-> FALSE, raised |-> FALSE,
                touched |-> {"poll", "stdin.write"}, log |-> {"error"}]
           [] outcome = "error" ->
               [writer |-> w, proc |-> p, ret |-> FALSE, raised |-> FALSE,
                touched |-> {"poll", "stdin.write"}, log |-> {"error"}]

\* how long the encoder takes to exit once its stdin is closed (seconds)
ExitDelays == {0, ReleaseTimeout, ReleaseTimeout + 1}

\* what release meets: stdin.close() raising (a flush into a broken pipe), the
\* encoder's exit delay and exit code
ReleaseEnvs == [close_raises : BOOLEAN, delay : ExitDelays, code : {"zero", "nonzero"}]

WarningIfNonZero(code) == IF code = "nonzero" THEN {"warning"} ELSE {}

\* variant of release: the fields are reset at the end of the try block, not in a finally
M_releaseWithoutFinally(w, p, env) ==
    IF w.process = "None"
    THEN [writer |-> w, proc |-> p, raised |-> FALSE, touched |-> {}, waited |-> 0, log |-> {}]
    ELSE LET closed == [p EXCEPT !.stdin = "closed"] IN
         IF env.close_raises
         THEN [writer |-> w, proc |-> closed, raised |-> FALSE,
               touched |-> {"stdin.close"}, waited |-> 0, log |-> {"error"}]
         ELSE IF p.state = "exited"
         THEN [writer |-> NoWriter, proc |-> [closed EXCEPT !.state = "reaped"],
               raised |-> FALSE, touched |-> {"stdin.close", "wait"}, waited |-> 0,
               log |-> WarningIfNonZero(p.code)]
         ELSE IF env.delay <= ReleaseTimeout
         THEN [writer |-> NoWriter,
               proc |-> [closed EXCEPT !.state = "reaped", !.code = env.code],
               raised |-> FALSE, touched |-> {"stdin.close", "wait"}, waited |-> env.delay,
               log |-> WarningIfNonZero(env.code)]
         ELSE [writer |-> w,
               proc |-> [closed EXCEPT !.state = "reaped", !.code = "nonzero"],
               raised |-> FALSE, touched |-> {"stdin.close", "wait", "terminate"},
               waited |-> ReleaseTimeout, log |-> {"error"}]

\* release(): nothing when self.process is None; otherwise close stdin, wait up
\* to 30 s, warn on a non-zero exit code; on TimeoutExpired terminate and wait;
\* any other Exception is logged; finally _opened = False and process = None
release(w, p, env) ==
    IF w.process = "None"
    THEN [writer |-> w, proc |-> p, raised |-> FALSE, touched |-> {}, waited |-> 0, log |-> {}]
    ELSE LET closed == [p EXCEPT !.stdin = "closed"] IN
         IF env.close_raises
         THEN [writer |-> NoWriter, proc |-> closed, raised |-> FALSE,
               touched |-> {"stdin.close"}, waited |-> 0, log |-> {"error"}]
         ELSE IF p.state = "exited"
         THEN [writer |-> NoWriter, proc |-> [closed EXCEPT !.state = "reaped"],
               raised |-> FALSE, touched |-> {"stdin.close", "wait"}, waited |-> 0,
               log |-> WarningIfNonZero(p.code)]
         ELSE IF env.delay <= ReleaseTimeout
         THEN [writer |-> NoWriter,
               proc |-> [closed EXCEPT !.state = "reaped", !.code = env.code],
               raised |-> FALSE, touched |-> {"stdin.close", "wait"}, waited |-> env.delay,
               log |-> WarningIfNonZero(env.code)]
         ELSE [writer |-> NoWriter,
               proc |-> [closed EXCEPT !.state = "reaped", !.code = "nonzero"],
               raised |-> FALSE, touched |-> {"stdin.close", "wait", "terminate"},
               waited |-> ReleaseTimeout, log |-> {"error"}]

\* the environment release actually consults: none when there is no process,
\* the exit delay and code only while the encoder is still running
ReleaseEnvMet(w, p, env) ==
    IF w.process = "None" THEN "none"
    ELSE IF env.close_raises THEN "close_raises"
    ELSE IF p.state = "exited" THEN "exited"
    ELSE IF env.delay <= ReleaseTimeout THEN "exits"
    ELSE "timeout"

\* --------------------------------------------------------- FaceReframer
MaxFrames == 12     \* frames a clip holds at most (end_frame - start_frame)

\* safe_zone_margin: float = 0.15, held as a percentage
SafeZoneMarginPct == 15

\* if frames_without_face > 10 and last_face is None
NoFaceThreshold == 10

\* Python's None and a value that is not None, for a field holding an integer
None == << >>
Some(x) == <<x>>

\* last_face before any detection; otherwise src says where the face came
\* from: a detection, or the frame-centre face of the no-face fallback
NoFace == [src |-> "none", center_x |-> 0]

Min(a, b) == IF a < b THEN a ELSE b
Max(a, b) == IF a > b THEN a ELSE b

Strategies == {"keep_in_frame", "centered"}

MaxShortClip == 3   \* frames of the short clips used where the encoder may fail

\* <<start_frame, frame_sample_rate>>: every frame sampled from the first on,
\* or every second frame sampled with an unsampled first frame
\* (start_frame = int(start_time * fps) if start_time else 0; the default
\* rate is 3)
Schedules == { <<0, 1>>, <<1, 2>> }

\* (frame_width, frame_height) read from the capture; <<0, 0>> is what
\* cap.get returns when the source could not be opened
Sources == { <<10, 8>>, <<4, 5>>, <<0, 0>> }

\* target_resolution argument (width, height)
Targets == { <<7, 8>>, <<8, 8>> }

\* int(n * s) for the float s nearest to num/(den*n): the floor of the exact
\* product, or one less when the exact product is an integer and the float
\* product falls just below it (1080 * (1920 / 1080) style round-off)
IntOfScaled(num, den) ==
    IF num % den = 0 THEN { num \div den, (num \div den) - 1 } ELSE { num \div den }

\* scale_factor = max(target_width / frame_width, target_height / frame_height)
\* scaled_width = int(frame_width * scale_factor), scaled_height likewise;
\* the result is the set of pairs the float arithmetic can give
ScaledSizes(fw, fh, tw, th) ==
    IF tw * fh >= th * fw
    THEN { <<w, h>> \in IntOfScaled(fw * tw, fw) \X IntOfScaled(fh * tw, fw) : TRUE }
    ELSE { <<w, h>> \in IntOfScaled(fw * th, fh) \X IntOfScaled(fh * th, fh) : TRUE }


\* safe_left = target_width * safe_zone_margin; face_x_in_crop < safe_left
BelowSafeLeft(face_x_in_crop, target_width) ==
    100 * face_x_in_crop < SafeZoneMarginPct * target_width

\* safe_right = target_width * (1 - safe_zone_margin); face_x_in_crop > safe_right
AboveSafeRight(face_x_in_crop, target_width) ==
    100 * face_x_in_crop > (100 - SafeZoneMarginPct) * target_width

\* int(safe_left), int(safe_right)
IntSafeLeft(target_width) == (SafeZoneMarginPct * target_width) \div 100
IntSafeRight(target_width) == ((100 - SafeZoneMarginPct) * target_width) \div 100

\* _calculate_crop_centered
calculate_crop_centered(center_x, frame_width, target_width) ==
    Max(0, Min(center_x - (target_width \div 2), frame_width - target_width))

\* variant of _calculate_crop_keep_in_frame: the move to the right is not
\* clamped to frame_width - target_width
M_keep_in_frame_unclamped(center_x, stored, frame_width, target_width) ==
    IF stored = None
    THEN Max(0, Min(center_x - (target_width \div 2), frame_width - target_width))
    ELSE IF BelowSafeLeft(center_x - stored[1], target_width)
         THEN Max(0, center_x - IntSafeLeft(target_width))
         ELSE IF AboveSafeRight(center_x - stored[1], target_width)
              THEN center_x - IntSafeRight(target_width)
              ELSE stored[1]

\* variant of _calculate_crop_keep_in_frame: inside the safe zone the crop
\* follows the face as under "centered"
M_keep_in_frame_follows(center_x, stored, frame_width, target_width) ==
    IF stored = None
    THEN Max(0, Min(center_x - (target_width \div 2), frame_width - target_width))
    ELSE IF BelowSafeLeft(center_x - stored[1], target_width)
         THEN Max(0, center_x - IntSafeLeft(target_width))
         ELSE IF AboveSafeRight(center_x - stored[1], target_width)
              THEN Min(frame_width - target_width, center_x - IntSafeRight(target_width))
              ELSE Max(0, Min(center_x - (target_width \div 2), frame_width - target_width))

\* variant of _calculate_crop_keep_in_frame: it moves the crop to centre the
\* face when the face leaves the safe zone
M_keep_in_frame_recentres(center_x, stored, frame_width, target_width) ==
    IF stored = None
    THEN Max(0, Min(center_x - (target_width \div 2), frame_width - target_width))
    ELSE IF BelowSafeLeft(center_x - stored[1], target_width)
         THEN Max(0, center_x - (target_width \div 2))
         ELSE IF AboveSafeRight(center_x - stored[1], target_width)
              THEN Min(frame_width - target_width, center_x - (target_width \div 2))
              ELSE stored[1]

\* variant of _calculate_crop_keep_in_frame: a move to the left puts the left
\* edge of the window on the face centre
M_keep_in_frame_left_edge(center_x, stored, frame_width, target_width) ==
    IF stored = None
    THEN Max(0, Min(center_x - (target_width \div 2), frame_width - target_width))
    ELSE IF BelowSafeLeft(center_x - stored[1], target_width)
         THEN Max(0, center_x)
         ELSE IF AboveSafeRight(center_x - stored[1], target_width)
              THEN Min(frame_width - target_width, center_x - IntSafeRight(target_width))
              ELSE stored[1]

\* _calculate_crop_keep_in_frame: the value it returns and stores in
\* self.last_crop_x, from the face centre and the stored self.last_crop_x
\* (None, or Some(x))
calculate_crop_keep_in_frame(center_x, stored, frame_width, target_width) ==
    IF stored = None
    THEN Max(0, Min(center_x - (target_width \div 2), frame_width - target_width))
    ELSE IF BelowSafeLeft(center_x - stored[1], target_width)
         THEN Max(0, center_x - IntSafeLeft(target_width))
         ELSE IF AboveSafeRight(center_x - stored[1], target_width)
              THEN Min(frame_width - target_width, center_x - IntSafeRight(target_width))
              ELSE stored[1]

\* length of the numpy slice a[start:stop] of an axis of length n
SliceLen(n, start, stop) ==
    LET norm(i) == IF i < 0 THEN Max(0, i + n) ELSE Min(i, n)
    IN  Max(0, norm(stop) - norm(start))

\* face['center_x'] of a detection on a frame scaled_width wide: the box may
\* reach past either edge of the frame; the coarse set holds the two ends
\* and the middle
FaceXs(scaled_width, coarse) ==
    IF coarse THEN {0, scaled_width \div 2, scaled_width}
    ELSE (-1)..(scaled_width + 1)

\* error: the exception the call ended with, "none" while it has not raised;
\* call: 1 for the first reframe_video call on the FaceReframer, 2 for the next
NoJob == [strategy |-> "keep_in_frame", frame_sample_rate |-> 1,
          frame_width |-> 0, frame_height |-> 0,
          target_width |-> 0, target_height |-> 0,
          scaled_width |-> 0, scaled_height |-> 0,
          start_frame |-> 0, end_frame |-> 0, error |-> "none", call |-> 1]

\* no frame handled yet.  face: "none" (last_face is None, static centre crop),
\* "detection" (found on this frame), "stale" (found on an earlier frame),
\* "fallback" (the frame-centre face); width and height: shape of the slice
\* scaled_frame[crop_y:crop_y + target_height, crop_x:crop_x + target_width]
NoFrame == [face |-> "unset", crop_x |-> 0, width |-> 0, height |-> 0, success |-> FALSE]

\* codecs_to_try = ['libx264', 'h264_videotoolbox']
codecs_to_try == <<"libx264", "h264_videotoolbox">>

\* what _detect_largest_face can return on a frame
Detections(scaled_width, coarse) ==
    { [found |-> FALSE, center_x |-> 0] } \cup
    { [found |-> TRUE, center_x |-> x] : x \in FaceXs(scaled_width, coarse) }

\* the arguments of a call and the source it is given: crop planning is
\* explored on full-length clips, both strategies and schedules; the
\* encoder's failures on short clips
Args(strategies, schedules, lengths) ==
    [strategy : strategies, schedule : schedules, source : Sources,
     target : Targets, length : lengths]

CropArgs == Args(Strategies, Schedules, {MaxFrames})
EncoderArgs == Args({"keep_in_frame"}, {<<0, 1>>}, 1..MaxShortClip)

\* what the encoder subprocesses of a call do: Popen succeeding, the
\* subprocess still running when first polled, the outcomes of stdin.write,
\* what release meets
AnyEncoder == [popen |-> BOOLEAN, alive |-> BOOLEAN, write |-> WriteOutcomes,
               release |-> ReleaseEnvs]
ReliableEncoder == [popen |-> {TRUE}, alive |-> {TRUE}, write |-> {"ok"},
                    release |-> {[close_raises |-> FALSE, delay |-> 0, code |-> "zero"]}]

\* variant of ShouldDetect: the detector runs on every frame
M_ShouldDetectEveryFrame(n, frame_sample_rate) == TRUE

\* should_detect = (frame_number % self.frame_sample_rate == 0)
ShouldDetect(n, frame_sample_rate) == (n % frame_sample_rate) = 0

\* the detection block of the loop body: last_face and frames_without_face after it
detect(should_detect, det, lf, fwf, scaled_width) ==
    IF ~should_detect
    THEN [last_face |-> lf, frames_without_face |-> fwf]
    ELSE IF det.found
    THEN [last_face |-> [src |-> "detection", center_x |-> det.center_x],
          frames_without_face |-> 0]
    ELSE IF fwf + 1 > NoFaceThreshold /\ lf = NoFace
    THEN [last_face |-> [src |-> "fallback", center_x |-> scaled_width \div 2],
          frames_without_face |-> fwf + 1]
    ELSE [last_face |-> lf, frames_without_face |-> fwf + 1]

\* where the face used for a frame comes from
FaceKind(should_detect, det, lf) ==
    IF lf = NoFace THEN "none"
    ELSE IF lf.src = "fallback" THEN "fallback"
    ELSE IF should_detect /\ det.found THEN "detection"
    ELSE "stale"

\* the crop block of the loop body: crop_x and self.last_crop_x after it
crop(j, lf, stored) ==
    IF lf = NoFace
    THEN [crop_x |-> (j.scaled_width - j.target_width) \div 2, last_crop_x |-> stored]
    ELSE IF j.strategy = "keep_in_frame"
    THEN LET x == calculate_crop_keep_in_frame(lf.center_x, stored,
                                               j.scaled_width, j.target_width)
         IN  [crop_x |-> x, last_crop_x |-> Some(x)]
    ELSE [crop_x |-> calculate_crop_centered(lf.center_x, j.scaled_width, j.target_width),
          last_crop_x |-> stored]

\* the pipes of Popen(cmd, stdin=PIPE, stderr=PIPE, stdout=PIPE), empty
NoPipes == [stdin |-> 0, stderr |-> 0, blocked |-> FALSE]

\* ------------------------------------------------------------------ Init
Init ==
    /\ pc = "idle"
    /\ cfg = DefaultCfg
    /\ clips = << >>
    /\ idx = 1
    /\ exported_clips = << >>
    /\ files = NoFiles
    /\ subtitle_file = FALSE
    /\ video_to_process = "source"
    /\ aspect_ratio = "None"
    /\ reframe_result = "not_run"
    /\ needs_two_steps = FALSE
    /\ cmds = << >>
    /\ ret = "pending"
    /\ log = << >>
    /\ writer = NoWriter
    /\ proc = NoProc
    /\ calls = 0
    /\ last = NoCallYet
    /\ rpc = "idle"
    /\ job = NoJob
    /\ cap = "none"
    /\ tried = << >>
    /\ out = 0
    /\ frame_number = 0
    /\ last_face = NoFace
    /\ frames_without_face = 0
    /\ last_crop_x = None
    /\ frame = NoFrame
    /\ write_failures = 0
    /\ pipes = NoPipes

\* the locals of _export_single_clip outside a call of it
NoCall ==
    /\ subtitle_file' = FALSE
    /\ video_to_process' = "source"
    /\ aspect_ratio' = "None"
    /\ reframe_result' = "not_run"
    /\ needs_two_steps' = FALSE
    /\ cmds' = << >>
    /\ ret' = "pending"

\* ------------------------------------------------------------ export_clips
\* a call of export_clips (its arguments are the inputs), up to the for loop
export_clips ==
    /\ pc = "idle"
    /\ \E c \in Configs, l \in ClipLists :
          /\ cfg' = c
          /\ clips' = l
    /\ idx' = 1
    /\ exported_clips' = << >>
    /\ log' = << >>
    /\ files' = NoFiles
    /\ pc' = "loop"
    /\ NoCall
    /\ UNCHANGED <<pipes, writer_vars, reframer_vars>>

\* the for loop is exhausted: return exported_clips
ReturnExported ==
    /\ pc = "loop"
    /\ idx > Len(clips)
    /\ pc' = "returned"
    /\ UNCHANGED <<cfg, clips, idx, exported_clips, files, log>>
    /\ UNCHANGED locals
    /\ UNCHANGED <<pipes, writer_vars, reframer_vars>>

\* ------------------------------------------------------ _export_single_clip
\* entry of _export_single_clip and subtitle generation.
\* generate_srt_for_clip catches every exception and returns None; it writes
\* the .srt only when the clip has transcript segments.
GenerateSubtitles ==
    /\ pc = "loop"
    /\ idx <= Len(clips)
    /\ \E before \in Preexisting :
         IF cfg.add_subtitles /\ cfg.transcript_path
         THEN /\ subtitle_file' = TRUE
              /\ \E written \in BOOLEAN :
                    files' = IF written THEN WriteFile(before, "srt", "fresh") ELSE before
         ELSE /\ subtitle_file' = FALSE
              /\ files' = before
    /\ video_to_process' = "source"
    /\ aspect_ratio' = cfg.aspect_ratio
    /\ reframe_result' = "not_run"
    /\ needs_two_steps' = FALSE
    /\ cmds' = << >>
    /\ ret' = "pending"
    /\ pc' = "face_tracking"
    /\ UNCHANGED <<cfg, clips, idx, exported_clips, log>>
    /\ UNCHANGED <<pipes, writer_vars, reframer_vars>>

\* variant of FaceTrackingApplies: the flag alone decides
M_FaceTrackingIgnoresAspect == cfg.enable_face_tracking

\* if enable_face_tracking and aspect_ratio == "9:16":
FaceTrackingApplies == cfg.enable_face_tracking /\ aspect_ratio = "9:16"

\* how reframe_video can end and what it leaves at temp_reframed_path:
\* it raises before an encoder was started (no file) or after (truncated file);
\* it returns with the encoder's file complete, or, when the encoder process
\* died during the frame loop (write returns False, the loop goes on), with a
\* truncated file or no file
ReframeOutcomes == { [raised |-> TRUE,  file |-> "none"],
                     [raised |-> TRUE,  file |-> "partial"],
                     [raised |-> FALSE, file |-> "reframed"],
                     [raised |-> FALSE, file |-> "partial"],
                     [raised |-> FALSE, file |-> "none"] }

\* variant of AfterReframe: aspect_ratio is reset before reframe_video is called
M_AfterReframeDropsAspect(raised, ar) ==
    IF raised
    THEN [video_to_process |-> "source",   aspect_ratio |-> "None", reframe_result |-> "raised"]
    ELSE [video_to_process |-> "reframed", aspect_ratio |-> "None", reframe_result |-> "returned"]

\* locals after the try/except around reframe_video
AfterReframe(raised, ar) ==
    IF raised
    THEN [video_to_process |-> "source",   aspect_ratio |-> ar,     reframe_result |-> "raised"]
    ELSE [video_to_process |-> "reframed", aspect_ratio |-> "None", reframe_result |-> "returned"]

\* the other variables of the reframer group
reframer_rest == <<rpc, job, cap, tried, out, frame_number, last_face,
                   frames_without_face, frame, write_failures>>

\* self.last_crop_x = None in FaceReframer.__init__
FaceReframer_last_crop_x == None

\* variant of ReframerForClip: one FaceReframer is kept for the whole batch
M_ReframerKeptAcrossClips(stored) == stored

\* reframer = FaceReframer(...): each clip export constructs its own object;
\* stored is last_crop_x of the object of the previous clip
ReframerForClip(stored) == FaceReframer_last_crop_x

\* crop positions a reframe call can commit (two stand for all)
CommittedCropXs == { 0, 1 }

\* last_crop_x after a reframe_video call entered with stored: kept when no
\* frame was planned under keep_in_frame with a face, else the last commit
LeftByCall(o, stored) ==
    IF o.raised /\ o.file = "none"
    THEN { stored }
    ELSE { stored } \cup { Some(x) : x \in CommittedCropXs }

NewReframer ==
    /\ pc = "face_tracking"
    /\ FaceTrackingApplies
    /\ last_crop_x' = ReframerForClip(last_crop_x)
    /\ pc' = "reframing"
    /\ UNCHANGED <<cfg, clips, idx, exported_clips, files, log>>
    /\ UNCHANGED locals
    /\ UNCHANGED <<pipes, writer_vars, reframer_rest>>

Reframe ==
    /\ pc = "reframing"
    /\ \E o \in ReframeOutcomes :
          /\ files' = WriteFile(files, "reframed", o.file)
          /\ last_crop_x' \in LeftByCall(o, last_crop_x)
          /\ LET a == AfterReframe(o.raised, aspect_ratio) IN
                /\ video_to_process' = a.video_to_process
                /\ aspect_ratio' = a.aspect_ratio
                /\ reframe_result' = a.reframe_result
    /\ pc' = "step1"
    /\ UNCHANGED <<cfg, clips, idx, exported_clips, log,
                   subtitle_file, needs_two_steps, cmds, ret>>
    /\ UNCHANGED <<pipes, writer_vars, reframer_rest>>

SkipReframe ==
    /\ pc = "face_tracking"
    /\ ~FaceTrackingApplies
    /\ pc' = "step1"
    /\ UNCHANGED <<cfg, clips, idx, exported_clips, files, log>>
    /\ UNCHANGED locals
    /\ UNCHANGED <<pipes, writer_vars, reframer_vars>>

\* --- STEP 1 (the try block up to the first subprocess.run) ----------------
TwoStepsNow == NeedsTwoSteps(cfg, subtitle_file, files.srt)

FirstCmd ==
    Step1Cmd(cfg, video_to_process, files.reframed, aspect_ratio,
             subtitle_file, files.srt, TwoStepsNow)

\* content of the file a Step 1 that exits zero writes
Step1Content(two) == IF two THEN "pass1" ELSE "single"

\* where the try block goes after result1: Step 2, or return output_path
AfterStep1(two) == IF two THEN [pc |-> "step2", ret |-> "pending"]
                          ELSE [pc |-> "finally", ret |-> "path"]

\* subprocess.run raises (OSError while launching ffmpeg): nothing catches it
Step1Raises ==
    /\ pc = "step1"
    /\ needs_two_steps' = TwoStepsNow
    /\ cmds' = Append(cmds, Run(FirstCmd, "oserror"))
    /\ ret' = "exception"
    /\ pc' = "finally"
    /\ UNCHANGED <<cfg, clips, idx, exported_clips, files, log,
                   subtitle_file, video_to_process, aspect_ratio, reframe_result>>
    /\ UNCHANGED <<pipes, writer_vars, reframer_vars>>

\* result1.returncode != 0: return None
Step1Fails ==
    /\ pc = "step1"
    /\ needs_two_steps' = TwoStepsNow
    /\ cmds' = Append(cmds, Run(FirstCmd, "nonzero"))
    /\ \E left \in AfterFailedRun(files[FirstCmd.output]) :
          files' = WriteFile(files, FirstCmd.output, left)
    /\ ret' = "None"
    /\ pc' = "finally"
    /\ UNCHANGED <<cfg, clips, idx, exported_clips, log,
                   subtitle_file, video_to_process, aspect_ratio, reframe_result>>
    /\ UNCHANGED <<pipes, writer_vars, reframer_vars>>

\* result1.returncode == 0
Step1Succeeds ==
    /\ pc = "step1"
    /\ needs_two_steps' = TwoStepsNow
    /\ cmds' = Append(cmds, Run(FirstCmd, "zero"))
    /\ files' = WriteFile(files, FirstCmd.output, Step1Content(TwoStepsNow))
    /\ ret' = AfterStep1(TwoStepsNow).ret
    /\ pc' = AfterStep1(TwoStepsNow).pc
    /\ UNCHANGED <<cfg, clips, idx, exported_clips, log,
                   subtitle_file, video_to_process, aspect_ratio, reframe_result>>
    /\ UNCHANGED <<pipes, writer_vars, reframer_vars>>

\* --- STEP 2 ---------------------------------------------------------------
SecondCmd == Step2Cmd(FirstStepOutput(needs_two_steps))

Step2Raises ==
    /\ pc = "step2"
    /\ cmds' = Append(cmds, Run(SecondCmd, "oserror"))
    /\ ret' = "exception"
    /\ pc' = "finally"
    /\ UNCHANGED <<cfg, clips, idx, exported_clips, files, log,
                   subtitle_file, video_to_process, aspect_ratio, reframe_result,
                   needs_two_steps>>
    /\ UNCHANGED <<pipes, writer_vars, reframer_vars>>

\* result2.returncode != 0: rename the Step 1 file to output_path, return None;
\* the rename itself can raise (OSError)
Step2Fails ==
    /\ pc = "step2"
    /\ cmds' = Append(cmds, Run(SecondCmd, "nonzero"))
    /\ \E left \in AfterFailedRun(files.out), renamed \in BOOLEAN :
          LET after == WriteFile(files, "out", left) IN
            IF renamed
            THEN /\ files' = Rename(after)
                 /\ ret' = "None"
            ELSE /\ files' = after
                 /\ ret' = "exception"
    /\ pc' = "finally"
    /\ UNCHANGED <<cfg, clips, idx, exported_clips, log,
                   subtitle_file, video_to_process, aspect_ratio, reframe_result,
                   needs_two_steps>>
    /\ UNCHANGED <<pipes, writer_vars, reframer_vars>>

Step2Succeeds ==
    /\ pc = "step2"
    /\ cmds' = Append(cmds, Run(SecondCmd, "zero"))
    /\ files' = WriteFile(files, "out", "pass2")
    /\ ret' = "path"
    /\ pc' = "finally"
    /\ UNCHANGED <<cfg, clips, idx, exported_clips, log,
                   subtitle_file, video_to_process, aspect_ratio, reframe_result,
                   needs_two_steps>>
    /\ UNCHANGED <<pipes, writer_vars, reframer_vars>>

\* --- the finally block ------------------------------------------------------
\* after it, _export_single_clip has returned (ret "None" or "path") or is
\* propagating the exception (ret "exception") to its caller
Finally ==
    /\ pc = "finally"
    /\ files' = Cleanup(files)
    /\ pc' = "after_clip"
    /\ UNCHANGED <<cfg, clips, idx, exported_clips, log>>
    /\ UNCHANGED locals
    /\ UNCHANGED <<pipes, writer_vars, reframer_vars>>

\* --- back in the for loop of export_clips -----------------------------------
\* variant of Accumulate: the path is appended whatever the call returned
M_AccumulateAlways(exported, r, c) == Append(exported, c)

\* if clip_path: exported_clips.append(str(clip_path))
Accumulate(exported, r, c) == IF r = "path" THEN Append(exported, c) ELSE exported

\* exit statuses of the transcodes of the clip export that just ended
Statuses == [i \in 1..Len(cmds) |-> cmds[i].status]

CollectClip ==
    /\ pc = "after_clip"
    /\ ret # "exception"
    /\ exported_clips' = Accumulate(exported_clips, ret, clips[idx])
    /\ log' = Append(log, [clip_id |-> clips[idx], statuses |-> Statuses])
    /\ idx' = idx + 1
    /\ pc' = "loop"
    /\ NoCall
    /\ files' = NoFiles
    /\ UNCHANGED <<cfg, clips>>
    /\ UNCHANGED <<pipes, writer_vars, reframer_vars>>

\* neither _export_single_clip nor export_clips has an except clause for it
PropagateException ==
    /\ pc = "after_clip"
    /\ ret = "exception"
    /\ pc' = "raised"
    /\ UNCHANGED <<cfg, clips, idx, exported_clips, files, log>>
    /\ UNCHANGED locals
    /\ UNCHANGED <<pipes, writer_vars, reframer_vars>>

\* ------------------------------------------------------------------ Spec
Next ==
    \/ export_clips
    \/ ReturnExported
    \/ GenerateSubtitles
    \/ NewReframer
    \/ Reframe
    \/ SkipReframe
    \/ Step1Raises
    \/ Step1Fails
    \/ Step1Succeeds
    \/ Step2Raises
    \/ Step2Fails
    \/ Step2Succeeds
    \/ Finally
    \/ CollectClip
    \/ PropagateException

Spec == Init /\ [][Next]_vars

\* ------------------------------------------------------------ WriterSpec
\* a caller constructing one FFmpegVideoWriter and calling write and release
\* on it in any order, while the encoder may exit on its own
Construct ==
    /\ last.op = "none"
    /\ \E popen_ok \in BOOLEAN :
          LET r == FFmpegVideoWriter(popen_ok) IN
             /\ writer' = r.writer
             /\ proc' = r.proc
             /\ last' = [NoCallYet EXCEPT !.op = "init", !.log = r.log]
    /\ calls' = calls + 1
    /\ UNCHANGED <<pipes, exporter_vars, reframer_vars>>

CallWrite ==
    /\ last.op # "none"
    /\ calls < MaxCalls
    /\ \E outcome \in WriteOutcomes :
          LET r == write(writer, proc, outcome) IN
             /\ writer' = r.writer
             /\ proc' = r.proc
             /\ last' = [op |-> "write", ret |-> r.ret, raised |-> r.raised,
                         touched |-> r.touched, waited |-> 0, log |-> r.log,
                         env |-> IF isOpened(writer, proc) THEN outcome ELSE "none"]
    /\ calls' = calls + 1
    /\ UNCHANGED <<pipes, exporter_vars, reframer_vars>>

CallRelease ==
    /\ last.op # "none"
    /\ calls < MaxCalls
    /\ \E env \in ReleaseEnvs :
          LET r == release(writer, proc, env) IN
             /\ writer' = r.writer
             /\ proc' = r.proc
             /\ last' = [op |-> "release", ret |-> "None", raised |-> r.raised,
                         touched |-> r.touched, waited |-> r.waited, log |-> r.log,
                         env |-> ReleaseEnvMet(writer, proc, env)]
    /\ calls' = calls + 1
    /\ UNCHANGED <<pipes, exporter_vars, reframer_vars>>

\* the encoder exits by itself (bad arguments, a crash, a kill)
EncoderExits ==
    /\ proc.state = "running"
    /\ \E code \in {"zero", "nonzero"} :
          proc' = [proc EXCEPT !.state = "exited", !.code = code]
    /\ UNCHANGED <<writer, calls, last>>
    /\ UNCHANGED <<pipes, exporter_vars, reframer_vars>>

WriterNext ==
    \/ Construct
    \/ CallWrite
    \/ CallRelease
    \/ EncoderExits

WriterSpec == Init /\ [][WriterNext]_vars

\* ----------------------------------------------------------- ReframeSpec
\* reframe_video up to the codec loop: open the capture, read its properties,
\* compute the scaled size (ZeroDivisionError when the capture reports a zero
\* width), check it against the target (ValueError)
reframe_video(calls_made) ==
    /\ rpc = "idle"
    /\ cap' = "open"
    /\ \E a \in calls_made :
          LET src  == a.source
              tgt  == a.target
              args == [NoJob EXCEPT !.strategy = a.strategy,
                                    !.frame_sample_rate = a.schedule[2],
                                    !.frame_width = src[1], !.frame_height = src[2],
                                    !.target_width = tgt[1], !.target_height = tgt[2],
                                    !.start_frame = a.schedule[1],
                                    !.end_frame = a.schedule[1] + a.length]
          IN  IF src[1] = 0 \/ src[2] = 0
              THEN /\ job' = [args EXCEPT !.error = "ZeroDivisionError"]
                   /\ rpc' = "raised"
              ELSE \E sc \in ScaledSizes(src[1], src[2], tgt[1], tgt[2]) :
                      LET too_small == sc[1] < tgt[1] \/ sc[2] < tgt[2] IN
                         /\ job' = [args EXCEPT !.scaled_width = sc[1],
                                                !.scaled_height = sc[2],
                                                !.error = IF too_small THEN "ValueError"
                                                          ELSE "none"]
                         /\ rpc' = IF too_small THEN "raised" ELSE "codecs"
    /\ UNCHANGED <<tried, out, frame_number, last_face, frames_without_face,
                   last_crop_x, frame, write_failures>>
    /\ UNCHANGED <<pipes, exporter_vars, writer_vars>>

\* the subprocess as isOpened finds it right after the constructor: still
\* running, or already gone (ffmpeg rejected the codec or its arguments)
AfterStart(p, alive) ==
    IF p.state = "running" /\ ~alive
    THEN [p EXCEPT !.state = "exited", !.code = "nonzero"]
    ELSE p

\* variant of TestWriter: a writer whose test write failed is dropped without release
M_TestWriterLeaksOnFailedWrite(c, p0, outcome, env) ==
    IF isOpened(c.writer, p0)
    THEN LET w == write(c.writer, p0, outcome) IN
         IF w.ret
         THEN [test |-> "ok", writer |-> w.writer, proc |-> w.proc]
         ELSE [test |-> "write_failed", writer |-> w.writer, proc |-> w.proc]
    ELSE LET r == release(c.writer, p0, env) IN
         [test |-> "not_opened", writer |-> r.writer, proc |-> r.proc]

\* the body of the try in the codec loop, for the writer c just constructed
\* whose subprocess is found as p0: isOpened, the test write of a dummy
\* frame, and release() unless the writer is kept
TestWriter(c, p0, outcome, env) ==
    IF isOpened(c.writer, p0)
    THEN LET w == write(c.writer, p0, outcome) IN
         IF w.ret
         THEN [test |-> "ok", writer |-> w.writer, proc |-> w.proc]
         ELSE LET r == release(w.writer, w.proc, env) IN
              [test |-> "write_failed", writer |-> r.writer, proc |-> r.proc]
    ELSE LET r == release(c.writer, p0, env) IN
         [test |-> "not_opened", writer |-> r.writer, proc |-> r.proc]

\* a writer left released: closed, its process handle dropped, and the stdin
\* of the subprocess it had started closed
Released(w, p) == w = NoWriter /\ (p.state # "none" => p.stdin = "closed")

\* what is kept of a candidate once its iteration is over: how its test
\* went, whether a subprocess was started for it, whether it was left released
Candidate(codec, t) ==
    [codec |-> codec, test |-> t.test,
     started |-> t.proc.state # "none",
     released |-> Released(t.writer, t.proc)]

\* one iteration of `for codec in codecs_to_try`: construct the writer, test
\* it, keep it (out = test_writer; break) or go on to the next codec
TryCodec(enc) ==
    /\ rpc = "codecs"
    /\ out = 0
    /\ Len(tried) < Len(codecs_to_try)
    /\ \E popen_ok \in enc.popen, alive \in enc.alive,
          outcome \in enc.write, env \in enc.release :
          LET codec == codecs_to_try[Len(tried) + 1]
              c  == FFmpegVideoWriter(popen_ok)
              t  == TestWriter(c, AfterStart(c.proc, alive), outcome, env)
          IN  /\ writer' = t.writer
              /\ proc' = t.proc
              /\ tried' = Append(tried, Candidate(codec, t))
              /\ IF t.test = "ok"
                 THEN /\ out' = Len(tried) + 1
                      /\ rpc' = "loop"
                      /\ frame_number' = job.start_frame
                 ELSE UNCHANGED <<out, rpc, frame_number>>
    /\ UNCHANGED <<job, cap, last_face, frames_without_face, last_crop_x, frame,
                   write_failures>>
    /\ UNCHANGED <<pipes, exporter_vars, calls, last>>

\* if out is None: raise RuntimeError
NoCodec ==
    /\ rpc = "codecs"
    /\ out = 0
    /\ Len(tried) = Len(codecs_to_try)
    /\ rpc' = "raised"
    /\ job' = [job EXCEPT !.error = "RuntimeError"]
    /\ UNCHANGED <<cap, tried, out, frame_number, last_face,
                   frames_without_face, last_crop_x, frame, write_failures>>
    /\ UNCHANGED <<pipes, exporter_vars, writer_vars>>

\* one pass through the body of the while loop: read, scale, detect on sampled
\* frames, choose crop_x, slice, write
ProcessFrame(enc, coarse) ==
    /\ rpc = "loop"
    /\ cap = "open"
    /\ frame_number < job.end_frame
    /\ \E det \in Detections(job.scaled_width, coarse), outcome \in enc.write :
          LET should_detect == ShouldDetect(frame_number, job.frame_sample_rate)
              d  == detect(should_detect, det, last_face, frames_without_face,
                           job.scaled_width)
              c  == crop(job, d.last_face, last_crop_x)
              crop_y == (job.scaled_height - job.target_height) \div 2
              w  == write(writer, proc, outcome)
          IN  /\ last_face' = d.last_face
              /\ frames_without_face' = d.frames_without_face
              /\ last_crop_x' = c.last_crop_x
              /\ frame' = [face    |-> FaceKind(should_detect, det, d.last_face),
                           crop_x  |-> c.crop_x,
                           width   |-> SliceLen(job.scaled_width, c.crop_x,
                                                c.crop_x + job.target_width),
                           height  |-> SliceLen(job.scaled_height, crop_y,
                                                crop_y + job.target_height),
                           success |-> w.ret]
              /\ writer' = w.writer
              /\ proc' = w.proc
              /\ write_failures' = IF w.ret THEN write_failures ELSE write_failures + 1
    /\ frame_number' = frame_number + 1
    /\ UNCHANGED <<rpc, job, cap, tried, out>>
    /\ UNCHANGED <<pipes, exporter_vars, calls, last>>

\* an exception inside the loop body (cap.read, cv2.resize, the detector):
\* nothing in reframe_video catches it
FrameRaises ==
    /\ rpc = "loop"
    /\ cap = "open"
    /\ frame_number < job.end_frame
    /\ rpc' = "raised"
    /\ job' = [job EXCEPT !.error = "Exception"]
    /\ UNCHANGED <<cap, tried, out, frame_number, last_face,
                   frames_without_face, last_crop_x, frame, write_failures>>
    /\ UNCHANGED <<pipes, exporter_vars, writer_vars>>

\* the loop ends (end_frame reached, or cap.read() returned no frame):
\* cap.release(), out.release(), return str(output_path)
Finish(enc) ==
    /\ rpc = "loop"
    /\ cap' = "released"
    /\ \E env \in enc.release :
          LET r == release(writer, proc, env)
          IN  /\ writer' = r.writer
              /\ proc' = r.proc
              /\ tried' = [tried EXCEPT ![out].released = Released(r.writer, r.proc)]
    /\ rpc' = "returned"
    /\ UNCHANGED <<job, out, frame_number, last_face, frames_without_face,
                   last_crop_x, frame, write_failures>>
    /\ UNCHANGED <<pipes, exporter_vars, calls, last>>

\* reframe_video on short clips with an encoder that may fail in every way
ReframeNext ==
    \/ reframe_video(EncoderArgs)
    \/ TryCodec(AnyEncoder)
    \/ NoCodec
    \/ ProcessFrame(AnyEncoder, TRUE)
    \/ FrameRaises
    \/ Finish(AnyEncoder)

ReframeSpec == Init /\ [][ReframeNext]_vars

\* ------------------------------------------------------------- ReuseSpec
\* two reframe_video calls, one after the other, on one FaceReframer

\* the values reframe_video derives from its arguments before the codec loop
JobsOf(a) ==
    LET src  == a.source
        tgt  == a.target
        args == [NoJob EXCEPT !.strategy = a.strategy,
                              !.frame_sample_rate = a.schedule[2],
                              !.frame_width = src[1], !.frame_height = src[2],
                              !.target_width = tgt[1], !.target_height = tgt[2],
                              !.start_frame = a.schedule[1],
                              !.end_frame = a.schedule[1] + a.length]
    IN  IF src[1] = 0 \/ src[2] = 0
        THEN { [args EXCEPT !.error = "ZeroDivisionError"] }
        ELSE { [args EXCEPT !.scaled_width = sc[1], !.scaled_height = sc[2],
                            !.error = IF sc[1] < tgt[1] \/ sc[2] < tgt[2]
                                      THEN "ValueError" ELSE "none"]
               : sc \in ScaledSizes(src[1], src[2], tgt[1], tgt[2]) }

\* the next call on the same object, after the first has returned: every
\* local starts afresh (606-608, 562), self.last_crop_x is what the first
\* call left
reframe_video_again(calls_made) ==
    /\ rpc = "returned"
    /\ job.call = 1
    /\ cap' = "open"
    /\ \E a \in calls_made :
          \E j \in JobsOf(a) :
             /\ job' = [j EXCEPT !.call = 2]
             /\ rpc' = IF j.error = "none" THEN "codecs" ELSE "raised"
    /\ tried' = << >>
    /\ out' = 0
    /\ frame_number' = 0
    /\ last_face' = NoFace
    /\ frames_without_face' = 0
    /\ frame' = NoFrame
    /\ write_failures' = 0
    /\ UNCHANGED last_crop_x
    /\ UNCHANGED <<pipes, exporter_vars, writer_vars>>

\* short clips, both strategies
ReuseArgs == Args(Strategies, {<<0, 1>>}, 1..MaxShortClip)

ReuseNext ==
    \/ reframe_video(ReuseArgs)
    \/ TryCodec(ReliableEncoder)
    \/ ProcessFrame(ReliableEncoder, TRUE)
    \/ Finish(ReliableEncoder)
    \/ reframe_video_again(ReuseArgs)

ReuseSpec == Init /\ [][ReuseNext]_vars

\* reframe_video on full-length clips with every face position, the encoder
\* accepting every frame
CropNext ==
    \/ reframe_video(CropArgs)
    \/ TryCodec(ReliableEncoder)
    \/ ProcessFrame(ReliableEncoder, FALSE)
    \/ FrameRaises
    \/ Finish(ReliableEncoder)

CropSpec == Init /\ [][CropNext]_vars

\* ------------------------------------------------------------- PipeSpec
\* reframe_video and its encoder as two processes joined by the pipes of
\* Popen: stdin carries the frames, stderr the encoder's log and progress
\* output (the command line sets neither -loglevel nor -nostats), and
\* nothing reads stderr or stdout before release

\* what a pipe holds before a writer to it blocks: frames on stdin, units of
\* output on stderr
PipeCapacity == 2

\* the loop body up to out.write(cropped_frame): cap.read, scale, detect, crop
ReadFrame ==
    /\ rpc = "loop"
    /\ cap = "open"
    /\ frame_number < job.end_frame
    /\ rpc' = "writing"
    /\ UNCHANGED <<job, cap, tried, out, frame_number, last_face,
                   frames_without_face, last_crop_x, frame, write_failures>>
    /\ UNCHANGED <<pipes, exporter_vars, writer_vars>>

\* self.process.stdin.write(frame.tobytes()) returns: the pipe had room
WriteReturns ==
    /\ rpc = "writing"
    /\ pipes.stdin < PipeCapacity
    /\ pipes' = [pipes EXCEPT !.stdin = @ + 1]
    /\ LET w == write(writer, proc, "ok")
       IN  /\ writer' = w.writer
           /\ proc' = w.proc
    /\ frame_number' = frame_number + 1
    /\ rpc' = "loop"
    /\ UNCHANGED <<job, cap, tried, out, last_face, frames_without_face,
                   last_crop_x, frame, write_failures>>
    /\ UNCHANGED <<exporter_vars, calls, last>>

\* the encoder reads one frame from its stdin and may report on stderr; it
\* blocks in that write once the pipe is full
EncoderReads ==
    /\ rpc \in {"loop", "writing"}
    /\ proc.state = "running"
    /\ ~pipes.blocked
    /\ pipes.stdin > 0
    /\ \E reports \in BOOLEAN :
          pipes' = IF ~reports THEN [pipes EXCEPT !.stdin = @ - 1]
                   ELSE IF pipes.stderr < PipeCapacity
                   THEN [pipes EXCEPT !.stdin = @ - 1, !.stderr = @ + 1]
                   ELSE [pipes EXCEPT !.stdin = @ - 1, !.blocked = TRUE]
    /\ UNCHANGED <<exporter_vars, writer_vars, reframer_vars>>

\* clips of every length up to MaxFrames
PipeArgs == Args({"keep_in_frame"}, {<<0, 1>>}, 1..MaxFrames)

\* reframe_video runs; the operating system runs the encoder
PipeCall ==
    \/ reframe_video(PipeArgs)
    \/ TryCodec(ReliableEncoder)
    \/ ReadFrame
    \/ WriteReturns
    \/ Finish(ReliableEncoder)

PipeNext ==
    \/ PipeCall
    \/ EncoderReads

\* both processes are scheduled: a step that stays possible is taken
PipeSpec == Init /\ [][PipeNext]_vars /\ WF_vars(PipeCall) /\ WF_vars(EncoderReads)

\* ======================================================================
\* Properties
\* ======================================================================

\* what the export request puts into effect, read off the arguments and the
\* output directory (not off the locals)
LogoInEffect == cfg.add_logo /\ cfg.logo_exists
SubtitlesInEffect == cfg.add_subtitles /\ cfg.transcript_path /\ files.srt # "none"
BothInEffect == LogoInEffect /\ SubtitlesInEffect

\* the try block of the current clip export has been left
TryLeft == pc \in {"finally", "after_clip"}

Filters(r) == { r.cmd.simple_filters[i] : i \in 1..Len(r.cmd.simple_filters) }
HasSubtitleBurn(r) == "subtitles" \in Filters(r)
HasOverlay(r) == r.cmd.logo_input_idx # -1
InputFiles(r) == { r.cmd.inputs[i].file : i \in 1..Len(r.cmd.inputs) }
AllZero(st) == Len(st) >= 1 /\ \A i \in 1..Len(st) : st[i] = "zero"

\* C1: when logo overlay and subtitle burn-in are both in effect for a clip (both
\* requested, the logo file and the clip's .srt exist), the export runs its
\* transcodes as Step 1 then Step 2: never more than two, Step 2 is started only
\* after Step 1 exited with status zero and always then, and the only input of
\* Step 2 is the file Step 1 wrote; a returned path means exactly two invocations.
C1_TwoPassesInSequence ==
    (pc \in {"step2", "finally", "after_clip"} /\ BothInEffect) =>
        /\ Len(cmds) \in {1, 2}
        /\ cmds[1].cmd.step = 1
        /\ cmds[1].cmd.output = "step1"
        /\ (pc = "step2" => Len(cmds) = 1 /\ cmds[1].status = "zero")
        /\ (TryLeft /\ cmds[1].status = "zero" => Len(cmds) = 2)
        /\ (Len(cmds) = 2 =>
              /\ cmds[1].status = "zero"
              /\ cmds[2].cmd.step = 2
              /\ cmds[2].cmd.inputs = << Input(cmds[1].cmd.output, FALSE) >>)
        /\ (ret = "path" => Len(cmds) = 2 /\ AllZero(Statuses))

C1_Witness ==
    /\ pc = "after_clip" /\ BothInEffect
    /\ Len(cmds) = 2 /\ cmds[2].status = "zero" /\ ret = "path"

\* C2: in a two-step export the Step 1 command carries -sn and no subtitle-burn
\* filter; over one clip export at most one transcode carries the subtitle-burn
\* filter, exactly one when the export returns a path with subtitles in effect,
\* and no command carries both the subtitle burn and the logo overlay.
C2_SubtitlesBurnedOnce ==
    Len(cmds) >= 1 =>
        /\ \A i \in 1..Len(cmds) : ~(HasSubtitleBurn(cmds[i]) /\ HasOverlay(cmds[i]))
        /\ Cardinality({ i \in 1..Len(cmds) : HasSubtitleBurn(cmds[i]) }) <= 1
        /\ (BothInEffect => cmds[1].cmd.sn /\ ~HasSubtitleBurn(cmds[1]))
        /\ (ret = "path" /\ SubtitlesInEffect =>
               Cardinality({ i \in 1..Len(cmds) : HasSubtitleBurn(cmds[i]) }) = 1)

C2_Witness ==
    /\ pc = "after_clip" /\ BothInEffect /\ ret = "path"
    /\ cmds[1].cmd.sn /\ HasOverlay(cmds[1]) /\ HasSubtitleBurn(cmds[2])

\* the static aspect-ratio filter applies when a ratio is requested and the
\* reframer did not deliver the video (it was not called, or it raised)
StaticFilterApplies == cfg.aspect_ratio # "None" /\ reframe_result # "returned"

ExpectedFilters ==
    (IF StaticFilterApplies
     THEN { CASE cfg.aspect_ratio = "9:16" -> "crop=ih*9/16:ih,scale=1080:1920"
              [] cfg.aspect_ratio = "1:1"  -> "crop=ih:ih,scale=1080:1080"
              [] cfg.aspect_ratio = "16:9" -> "scale=1920:1080" }
     ELSE {})
    \cup (IF SubtitlesInEffect THEN {"subtitles"} ELSE {})

\* C3: when logo and subtitles are not both in effect, the clip export makes
\* exactly one transcode invocation; its filter chain holds exactly the filters
\* that apply (the static aspect-ratio filter unless the reframer returned, the
\* subtitle burn), the logo is overlaid exactly when the logo is in effect, and
\* its output is output_path.
C3_SinglePass ==
    (TryLeft /\ ~BothInEffect) =>
        /\ Len(cmds) = 1
        /\ cmds[1].cmd.output = "out"
        /\ Filters(cmds[1]) = ExpectedFilters
        /\ Len(cmds[1].cmd.simple_filters) = Cardinality(ExpectedFilters)
        /\ (HasOverlay(cmds[1]) <=> LogoInEffect)
        /\ (LogoInEffect =>
              cmds[1].cmd.inputs[cmds[1].cmd.logo_input_idx + 1].file = "logo")
        /\ (cmds[1].status = "zero" => files.out = "single" /\ ret = "path")

C3_Witness ==
    /\ pc = "after_clip" /\ LogoInEffect /\ ~SubtitlesInEffect
    /\ cfg.aspect_ratio = "1:1" /\ Len(cmds) = 1 /\ HasOverlay(cmds[1])
    /\ Filters(cmds[1]) = {"crop=ih:ih,scale=1080:1080"}
    /\ ret = "path" /\ files.out = "single"

RECURSIVE SucceededIds(_)
SucceededIds(l) ==
    IF l = << >> THEN << >>
    ELSE IF AllZero(Head(l).statuses)
         THEN << Head(l).clip_id >> \o SucceededIds(Tail(l))
         ELSE SucceededIds(Tail(l))

\* C4: the list export_clips accumulates holds, in input order, exactly the
\* clips whose transcode invocations all exited with status zero; a clip with
\* a non-zero exit adds nothing, and when export_clips returns every clip of
\* the batch has been processed, those after a failed clip included.
C4_PartialBatch ==
    /\ exported_clips = SucceededIds(log)
    /\ \A i \in 1..Len(log) : log[i].clip_id = clips[i]
    /\ (pc = "loop" => Len(log) = idx - 1)
    /\ (pc = "returned" => Len(log) = Len(clips))

C4_Witness ==
    /\ pc = "returned" /\ Len(clips) = 2
    /\ ~AllZero(log[1].statuses) /\ AllZero(log[2].statuses)
    /\ exported_clips = << clips[2] >>

\* C5: no exception raised while a clip is exported leaves export_clips: the
\* clip is dropped from the result and the loop goes on to the next clip.
C5_NoExceptionEscapes == pc # "raised"

\* C6: face tracking enabled, target 9:16, the reframer raised: the transcode
\* takes the trimmed original source as video input, never the intermediate,
\* applies the static 9:16 crop-and-scale filter, and the export returns the
\* clip's path when every transcode exits zero.
C6_ReframerFallback ==
    (Len(cmds) >= 1 /\ cfg.enable_face_tracking /\ cfg.aspect_ratio = "9:16"
       /\ reframe_result = "raised") =>
        /\ cmds[1].cmd.inputs[1] = Input("source", TRUE)
        /\ "reframed" \notin InputFiles(cmds[1])
        /\ "crop=ih*9/16:ih,scale=1080:1920" \in Filters(cmds[1])
        /\ (TryLeft /\ AllZero(Statuses) => ret = "path")

C6_Witness ==
    /\ pc = "after_clip" /\ reframe_result = "raised"
    /\ AllZero(Statuses) /\ ret = "path"
    /\ "crop=ih*9/16:ih,scale=1080:1920" \in Filters(cmds[1])

\* C7: once the export of a clip has ended (returned or raised), neither the
\* reframed intermediate nor the Step 1 temporary file of the clip exists.
C7_NoTempFilesLeft ==
    pc \in {"after_clip", "loop", "returned", "raised"} =>
        files.step1 = "none" /\ files.reframed = "none"

C7_Witness ==
    /\ pc = "after_clip"
    /\ "reframed" \in InputFiles(cmds[1])
    /\ cmds[1].cmd.output = "step1" /\ cmds[1].status = "zero"
    /\ Len(cmds) = 2 /\ cmds[2].status = "oserror" /\ ret = "exception"
    /\ files.step1 = "none" /\ files.reframed = "none"

\* C8: Step 2 exited non-zero and the clip export returned: the file at
\* output_path is the Step 1 output, and no path is returned.
C8_Pass1Preserved ==
    (pc = "after_clip" /\ Len(cmds) = 2 /\ cmds[2].status = "nonzero"
       /\ ret # "exception") =>
        files.out = "pass1" /\ ret = "None"

C8_Witness ==
    /\ pc = "after_clip" /\ Len(cmds) = 2 /\ cmds[2].status = "nonzero"
    /\ ret = "None" /\ files.out = "pass1" /\ files.step1 = "none"

\* C9: the first transcode (Step 1 or the single pass) exited non-zero: the
\* export returns no path, Step 2 is never started, and no file is left at
\* output_path.
C9_FailedFirstPassLeavesNothing ==
    (pc = "after_clip" /\ Len(cmds) >= 1 /\ cmds[1].status = "nonzero") =>
        /\ ret = "None"
        /\ Len(cmds) = 1
        /\ files.out = "none"

\* C10: a command that encodes audio maps it from the trimmed original source:
\* input 1 when the reframed intermediate is input 0, input 0 otherwise; a
\* command that copies audio reads the output of such a command.
C10_AudioFromSource ==
    \A i \in 1..Len(cmds) :
        LET c == cmds[i].cmd IN
          /\ (c.c_a = "aac" =>
                /\ c.audio_input_idx = (IF c.inputs[1].file = "reframed" THEN 1 ELSE 0)
                /\ c.audio_input_idx + 1 <= Len(c.inputs)
                /\ c.inputs[c.audio_input_idx + 1] = Input("source", TRUE)
                /\ \A k \in 2..Len(c.inputs) : c.inputs[k].file # "reframed")
          /\ (c.c_a # "aac" =>
                /\ i > 1
                /\ cmds[i - 1].cmd.c_a = "aac"
                /\ c.inputs = << Input(cmds[i - 1].cmd.output, FALSE) >>)

C10_Witness ==
    /\ pc = "after_clip" /\ ret = "path"
    /\ cmds[1].cmd.inputs[1] = Input("reframed", FALSE)
    /\ cmds[1].cmd.audio_input_idx = 1
    /\ cmds[1].cmd.inputs[2] = Input("source", TRUE)

\* C11: the reframer is invoked for a clip only when face tracking is enabled
\* and the target aspect ratio is 9:16; for the targets original (None), 16:9
\* and 1:1 it is never invoked and leaves no intermediate, whatever the flag.
C11_ReframerOnlyFor916 ==
    /\ reframe_result # "not_run" =>
          cfg.enable_face_tracking /\ cfg.aspect_ratio = "9:16"
    /\ cfg.aspect_ratio \in {"None", "16:9", "1:1"} =>
          reframe_result = "not_run" /\ files.reframed = "none"
    /\ pc \in {"step1", "step2", "finally", "after_clip"}
          /\ cfg.enable_face_tracking /\ cfg.aspect_ratio = "9:16"
          => reframe_result # "not_run"

C11_Witness ==
    /\ pc = "step1"
    /\ cfg.enable_face_tracking
    /\ cfg.aspect_ratio = "16:9"
    /\ reframe_result = "not_run"

\* C18: FFmpegVideoWriter.write never raises; it returns False when the writer
\* is not open or the pipe is broken; a write that hits a broken pipe and a
\* release both leave _opened unset, _opened is never set again, and a write
\* on a writer whose _opened is unset returns False without touching the
\* subprocess.
C18_WriteNeverRaises ==
    [][ /\ (last'.op = "write" /\ calls' = calls + 1) =>
              /\ ~last'.raised
              /\ ~isOpened(writer, proc) => last'.ret = FALSE
              /\ last'.env = "broken_pipe" => last'.ret = FALSE /\ ~writer'.opened
              /\ ~writer.opened =>
                    /\ last'.ret = FALSE
                    /\ last'.touched = {}
                    /\ proc' = proc
                    /\ writer' = writer
        /\ (last'.op = "release" /\ calls' = calls + 1) => ~writer'.opened
        /\ (calls > 0 /\ ~writer.opened) => ~writer'.opened
      ]_vars

\* a write made after an earlier write hit a broken pipe
C18_Witness ==
    /\ last.op = "write"
    /\ last.env = "none"
    /\ last.ret = FALSE
    /\ last.touched = {}
    /\ writer = [opened |-> FALSE, process |-> "proc"]
    /\ proc.state = "exited"

\* C19: release closes the encoder's stdin, waits at most 30 seconds for the
\* encoder to exit and terminates it on timeout, only logs a warning on a
\* non-zero exit code, and in every case leaves the writer closed
\* (isOpened false, process None); on a writer without a process (never
\* started, or already released) it does nothing.
C19_ReleaseClosesWriter ==
    [][ (last'.op = "release" /\ calls' = calls + 1) =>
           /\ writer' = NoWriter
           /\ ~isOpened(writer', proc')
           /\ last'.waited <= ReleaseTimeout
           /\ writer.process = "None" =>
                 proc' = proc /\ last'.touched = {} /\ last'.log = {}
           /\ writer.process # "None" =>
                 /\ "stdin.close" \in last'.touched
                 /\ proc'.stdin = "closed"
                 /\ last'.env = "timeout" =>
                       /\ "terminate" \in last'.touched
                       /\ last'.waited = ReleaseTimeout
                       /\ proc'.state = "reaped"
                 /\ last'.env # "timeout" => "terminate" \notin last'.touched
                 /\ (last'.env \in {"exits", "exited"} /\ proc'.code = "nonzero") =>
                       last'.log = {"warning"} /\ ~last'.raised
      ]_vars

\* a release that ran into the 30 s timeout
C19_Witness ==
    /\ last.op = "release"
    /\ last.env = "timeout"
    /\ "terminate" \in last.touched
    /\ writer = NoWriter
    /\ proc.state = "reaped"

\* ---- reframe_video: helpers of the properties
\* at least one frame has gone through the loop body
FrameHandled == frame.face # "unset"

\* the largest crop offset that keeps the window inside the scaled frame
MaxCropX == job.scaled_width - job.target_width

\* a step that handles one frame
FrameStep == rpc = "loop" /\ rpc' = "loop" /\ frame_number' = frame_number + 1

\* x lies in [safe_left, safe_right] of a window target_width wide
InSafeZone(x, target_width) ==
    /\ 100 * x >= SafeZoneMarginPct * target_width
    /\ 100 * x <= (100 - SafeZoneMarginPct) * target_width

\* pct per cent of target_width, truncated to an integer
Truncated(pct, target_width) ==
    CHOOSE n \in 0..target_width :
        100 * n <= pct * target_width /\ 100 * (n + 1) > pct * target_width

\* C12: for every frame of a reframe pass, under either strategy and whatever
\* the face comes from (a detection, a stale detection, the no-face fallback,
\* or no face at all), 0 <= crop_x <= scaled_width - target_width, and the
\* slice taken from the scaled frame is exactly target_width by target_height,
\* so the defensive resize is never needed.
C12_CropBounds ==
    FrameHandled =>
        /\ 0 <= frame.crop_x
        /\ frame.crop_x <= MaxCropX
        /\ frame.width = job.target_width
        /\ frame.height = job.target_height

\* a stale face beyond the right edge, the crop held at its right limit
C12_Witness ==
    /\ job.strategy = "keep_in_frame"
    /\ frame.face = "stale"
    /\ last_face.center_x > job.scaled_width
    /\ MaxCropX > 0
    /\ frame.crop_x = MaxCropX

\* C13: under keep_in_frame, once last_crop_x is set, a frame whose face
\* centre lies within [safe_left, safe_right] of the current crop leaves
\* last_crop_x as it is and is cropped at it; so over a sequence of faces that
\* never leave the safe zone of the first crop, last_crop_x never changes.
C13_SafeZoneStability ==
    [][ ( /\ FrameStep
          /\ job.strategy = "keep_in_frame"
          /\ last_crop_x # None
          /\ last_face' # NoFace
          /\ InSafeZone(last_face'.center_x - last_crop_x[1], job.target_width) )
        => ( /\ last_crop_x' = last_crop_x
             /\ frame'.crop_x = last_crop_x[1] )
      ]_vars

\* a detected face off-centre in the window, away from the safe-zone bounds,
\* with the window not at an edge of the frame: the crop was not computed
\* from this face, it stayed where it was
C13_Witness ==
    /\ rpc = "loop"
    /\ job.strategy = "keep_in_frame"
    /\ frame.face = "detection"
    /\ last_crop_x # None
    /\ frame.crop_x > 0
    /\ frame.crop_x < MaxCropX
    /\ LET off == last_face.center_x - last_crop_x[1] IN
          /\ InSafeZone(off, job.target_width)
          /\ off # job.target_width \div 2

\* C14: under keep_in_frame with last_crop_x set, a face whose offset from
\* last_crop_x is below safe_left gives crop_x = max(0, center_x - int(safe_left)),
\* one above safe_right gives min(frame_width - target_width, center_x -
\* int(safe_right)); unless the clamp applies, the face centre then sits at
\* the truncated bound it crossed.
C14_SafeZoneTrigger ==
    [][ ( /\ FrameStep
          /\ job.strategy = "keep_in_frame"
          /\ last_crop_x # None
          /\ last_face' # NoFace )
        => LET cx  == last_face'.center_x
               off == cx - last_crop_x[1]
               tw  == job.target_width
               sl  == Truncated(SafeZoneMarginPct, tw)
               sr  == Truncated(100 - SafeZoneMarginPct, tw)
           IN  /\ 100 * off < SafeZoneMarginPct * tw =>
                     /\ last_crop_x' = Some(Max(0, cx - sl))
                     /\ frame'.crop_x = Max(0, cx - sl)
                     /\ cx - sl >= 0 => cx - frame'.crop_x = sl
               /\ 100 * off > (100 - SafeZoneMarginPct) * tw =>
                     /\ last_crop_x' = Some(Min(MaxCropX, cx - sr))
                     /\ frame'.crop_x = Min(MaxCropX, cx - sr)
                     /\ cx - sr <= MaxCropX => cx - frame'.crop_x = sr
      ]_vars

\* a detected face sitting at the truncated left bound of a window that is
\* not at an edge of the frame: the window was moved left to put it there
C14_Witness ==
    /\ rpc = "loop"
    /\ job.strategy = "keep_in_frame"
    /\ frame.face = "detection"
    /\ last_crop_x = Some(frame.crop_x)
    /\ frame.crop_x > 0
    /\ frame.crop_x < MaxCropX
    /\ last_face.center_x - frame.crop_x = Truncated(SafeZoneMarginPct, job.target_width)
    /\ ~InSafeZone(last_face.center_x - frame.crop_x, job.target_width)

\* C15: in a clip where no sampled frame yields a detection, every frame,
\* before the no-face fallback threshold is crossed (no face at all) and after
\* it (the frame-centre face), is cropped at the same frame-centred offset
\* (scaled_width - target_width) // 2, for every scaled width and target width.
C15_SameCentredCrop ==
    frame.face \in {"none", "fallback"} =>
        frame.crop_x = (job.scaled_width - job.target_width) \div 2

\* C16: when a reframe call has ended, by returning or by raising (resolution
\* error, no encoder, exception in the frame loop), the capture has been
\* released and so has every writer whose encoder subprocess was started.
C16_HandlesReleased ==
    (rpc = "returned" \/ job.error \in {"ValueError", "RuntimeError", "Exception"}) =>
        /\ cap = "released"
        /\ \A i \in 1..Len(tried) : tried[i].started => tried[i].released

\* C17: a reframe call in which the write of every frame of the loop failed
\* (two frames or more) does not return normally.
C17_SustainedWriteFailureIsFatal ==
    rpc = "returned" =>
        ~( /\ frame_number - job.start_frame >= 2
           /\ write_failures = frame_number - job.start_frame )

\* C20: the codecs are tried in the order of codecs_to_try; the writer kept is
\* that of the first codec whose subprocess opened and accepted the test
\* write; every candidate that failed has been released by the time the next
\* one is tried; and when none succeeds the call raises without having read a
\* frame, the frame loop being entered only with a writer kept.
C20_CodecFallback ==
    /\ Len(tried) <= Len(codecs_to_try)
    /\ \A i \in 1..Len(tried) :
          /\ tried[i].codec = codecs_to_try[i]
          /\ tried[i].test = "ok" <=> out = i
          /\ tried[i].test = "ok" => tried[i].started /\ i = Len(tried)
          /\ tried[i].test # "ok" => tried[i].released
    /\ rpc \in {"loop", "returned"} => out # 0
    /\ job.error = "RuntimeError" =>
          /\ out = 0
          /\ Len(tried) = Len(codecs_to_try)
          /\ frame = NoFrame
          /\ frame_number = 0
    /\ (rpc # "codecs" /\ out = 0 /\ Len(tried) = Len(codecs_to_try)) =>
          rpc = "raised" /\ job.error = "RuntimeError"

\* the first codec opened but failed its test write and was released, the
\* second was kept
C20_Witness ==
    /\ rpc = "loop"
    /\ out = 2
    /\ tried[1].test = "write_failed"
    /\ tried[1].started
    /\ tried[1].released
    /\ tried[2].codec = "h264_videotoolbox"


\* ------------------------------------------------------------------ C21
\* C21: every clip of a batch enters crop planning with last_crop_x unset
\* (Uninitialized), whatever the reframer of the clips exported before it
\* committed: reframe_video is entered on a FaceReframer whose last_crop_x
\* is None.
C21_FreshReframerPerClip ==
    pc = "reframing" => last_crop_x = None

\* the second clip of a batch is about to be reframed
C21_Witness ==
    /\ pc = "reframing"
    /\ idx = 2
    /\ Len(log) = 1

\* ------------------------------------------------------------------ C22
\* the filter of _get_logo_overlay_filter that scales the logo relative to
\* the video height: scale2ref=w=oh*mdar:h=ih*{scale}
ScaleLogo(pct) == [filter |-> "scale2ref", h_pct_of_ih |-> pct]

\* C22: in every transcode with a logo overlay, the overlay sits at the
\* requested corner (top-right for an unknown position name) and the logo
\* stream is scaled by logo_scale relative to the video height before it is
\* overlaid.
C22_LogoPlacedAndScaled ==
    \A i \in 1..Len(cmds) :
        HasOverlay(cmds[i]) =>
            /\ cmds[i].cmd.overlay_pos = pos_str(cfg.logo_position)
            /\ cmds[i].cmd.logo_filters = << ScaleLogo(cfg.logo_scale) >>

\* ------------------------------------------------------------------ C23
\* C23: a frame whose number is not a multiple of the sampling rate is handled
\* without detection: last_face and the miss counter are as the frame before
\* left them, the face used is not a detection of this frame, and under
\* keep_in_frame (safe-zone margin 0.15) crop_x equals the crop_x of the
\* frame before it.
C23_CropMovesOnlyOnSampledFrames ==
    [][ (FrameStep /\ frame_number % job.frame_sample_rate # 0) =>
            /\ last_face' = last_face
            /\ frames_without_face' = frames_without_face
            /\ frame'.face # "detection"
            /\ (job.strategy = "keep_in_frame" /\ FrameHandled =>
                    frame'.crop_x = frame.crop_x) ]_vars

\* an unsampled frame has just been handled with the face detected on the
\* frame before it, on which the crop had moved off the frame centre and
\* off both edges
C23_Witness ==
    /\ rpc = "loop"
    /\ job.strategy = "keep_in_frame"
    /\ job.frame_sample_rate > 1
    /\ (frame_number - 1) % job.frame_sample_rate # 0
    /\ frame_number - job.start_frame >= 4
    /\ frame.face = "stale"
    /\ frame.crop_x \notin { 0, MaxCropX, (job.scaled_width - job.target_width) \div 2 }

\* ------------------------------------------------------------------ C24
\* source frames of the clip range decoded so far by the running call
FramesDecoded == frame_number - job.start_frame

\* C24: the encoder kept by a reframe call has received exactly one frame for
\* each source frame decoded in the clip range, and nothing else.
C24_OneFramePerSourceFrame ==
    (rpc \in {"loop", "returned"} /\ out # 0) => proc.frames = FramesDecoded

\* ------------------------------------------------------------------ C25
\* the crop offsets the code uses for a window centred on the frame: the
\* static centre crop and the crop around the fallback face
CentreCrops ==
    { (job.scaled_width - job.target_width) \div 2,
      calculate_crop_centered(job.scaled_width \div 2, job.scaled_width, job.target_width) }

\* C25: once more than 10 consecutive sampled frames had no detection, the
\* frame handled uses the frame-centred crop, whatever had been detected
\* before the run of misses.
C25_CentreCropAfterMisses ==
    (FrameHandled /\ frames_without_face > NoFaceThreshold) => frame.crop_x \in CentreCrops

\* ------------------------------------------------------------------ C26
\* the frame just handled was cropped under keep_in_frame around a face the
\* detector found (on this frame or on an earlier one)
DecidedOnDetectedFace ==
    /\ FrameHandled
    /\ job.strategy = "keep_in_frame"
    /\ frame.face \in {"detection", "stale"}

\* C26: under keep_in_frame (safe-zone margin 0.15), after a crop decision
\* made on a detected face, the face centre lies between the truncated left
\* bound int(safe_left) and the right bound safe_right of the committed crop
\* window, unless the window sits at the left or right edge of the frame.
C26_FaceInsideCommittedSafeZone ==
    (DecidedOnDetectedFace /\ frame.crop_x \notin {0, MaxCropX}) =>
        LET off == last_face.center_x - frame.crop_x
        IN  /\ last_crop_x = Some(frame.crop_x)
            /\ off >= Truncated(SafeZoneMarginPct, job.target_width)
            /\ 100 * off <= (100 - SafeZoneMarginPct) * job.target_width

\* a move to the right has just been committed away from both edges: the
\* face found on this frame sits at int(safe_right) of the new window
C26_Witness ==
    /\ DecidedOnDetectedFace
    /\ frame.face = "detection"
    /\ frame_number - job.start_frame >= 2
    /\ frame.crop_x \notin {0, MaxCropX}
    /\ last_face.center_x - frame.crop_x = Truncated(100 - SafeZoneMarginPct, job.target_width)
    /\ Truncated(100 - SafeZoneMarginPct, job.target_width) # job.target_width \div 2

\* ------------------------------------------------------------------ C27
\* C27: a reframe call that has entered the frame loop returns: every
\* out.write returns and cap.release(), out.release() are reached, while
\* nothing reads the encoder's stderr and stdout.
C27_ReframeTerminates ==
    (rpc \in {"loop", "writing"}) ~> (rpc = "returned")

\* ------------------------------------------------------------------ C28
\* the video input of a transcode is the face-tracked intermediate
TakesIntermediate(r) == r.cmd.inputs[1].file = "reframed"

\* the video input of a transcode is the trimmed source and the static 9:16
\* crop-and-scale filter is applied to it
TakesSourceCropped(r) ==
    /\ r.cmd.inputs[1] = Input("source", TRUE)
    /\ get_aspect_ratio_filter("9:16") \in Filters(r)

\* C28: in an export with target 9:16 the first transcode that ran takes either the
\* face-tracked intermediate or the source through the static 9:16 filter,
\* exactly one of the two.
C28_CroppedOneWayOrTheOther ==
    (Len(cmds) >= 1 /\ cmds[1].status = "zero" /\ cfg.aspect_ratio = "9:16") =>
        (TakesIntermediate(cmds[1]) # TakesSourceCropped(cmds[1]))

\* ------------------------------------------------------------------ C29
\* C29: a reframe_video call crops as a call on a freshly constructed
\* FaceReframer would, whichever call on the object it is; in particular
\* (keep_in_frame) a face detected on the first frame of the call is centred,
\* as with last_crop_x unset.
C29_CallsIndependent ==
    ( /\ rpc = "loop"
      /\ job.strategy = "keep_in_frame"
      /\ frame_number = job.start_frame + 1
      /\ frame.face = "detection" )
    => frame.crop_x = calculate_crop_keep_in_frame(last_face.center_x, FaceReframer_last_crop_x,
                                                   job.scaled_width, job.target_width)

\* ------------------------------------------------------------------ C30
\* C30: a transcode burns subtitles only from the .srt written by
\* generate_srt_for_clip in this export call; when the call wrote none, no
\* command carries the subtitle filter and no second pass is run, whatever
\* .srt of that name is left from an earlier export.
C30_SubtitlesOfThisExport ==
    files.srt # "fresh" =>
        /\ \A i \in 1..Len(cmds) : ~HasSubtitleBurn(cmds[i])
        /\ Len(cmds) <= 1

====
